---- MODULE Spec2Model ----
(***************************************************************************)
(* Model of the openvpn3-linux logging core:                               *)
(*   src/src/log/logwriter.hpp, src/src/log/logwriter.cpp                  *)
(*       LogMetaDataValue, LogMetaData, LogWriter and the writer backends  *)
(*       StreamLogWriter, SyslogWriter, JournaldWriter                     *)
(*   src/src/client/backend-signals.hpp                                    *)
(*       BackendSignals (StatusChange, AttentionReq, RegistrationRequest,  *)
(*       Log, LogFATAL and the delayed shutdown thread)                    *)
(*                                                                         *)
(* A std::string is modelled as a sequence of tokens; concatenation is \o  *)
(* and the empty string is <<>>.                                           *)
(***************************************************************************)
EXTENDS Naturals, Sequences, FiniteSets

\* ------------------------------------------------------------------ bounds
\* Largest number of entries a caller puts into one LogMetaData container.
MaxMeta == 2
\* Largest LogMetaData container handed to AddMetaCopy.
MaxCopy == 1

\* ------------------------------------------------------------ input domains
Backends == {"stream", "syslog", "journald"}
Labels == {"user", "ip"}
TagLabels == {"user"}
StringValues == {"alice"}
LogTags == {"tag1"}
Messages == {"login"}
LogGroups == {"SESSION"}
LogCategories == {"INFO"}
SessionTokens == {"", "tok1"}

\* ------------------------------------------------------ LogMetaDataValue
\* LogMetaDataValue(l, v, s) with a std::string value
LogMetaDataValue(l, v, s) ==
    [label |-> l, type |-> "LOGMETA_STRING", value |-> v, skip |-> s]

\* LogMetaDataValue(l, v, s) with a LogTag value
LogMetaDataValueTag(l, t, s) ==
    [label |-> l, type |-> "LOGMETA_LOGTAG", value |-> t, skip |-> s]

MetaValues ==
    {LogMetaDataValue(l, v, s) : l \in Labels, v \in StringValues, s \in BOOLEAN}
    \cup {LogMetaDataValueTag(l, t, s) : l \in TagLabels, t \in LogTags, s \in BOOLEAN}

RECURSIVE SeqsUpTo(_, _)
SeqsUpTo(S, n) ==
    IF n = 0 THEN {<<>>}
    ELSE LET shorter == SeqsUpTo(S, n - 1)
         IN  shorter \cup {Append(q, x) : q \in {r \in shorter : Len(r) = n - 1}, x \in S}

\* LogTag::str(encaps): the tag's text, wrapped when encapsulated
LogTag_str(t, encaps) ==
    IF encaps THEN <<"{tag:", t, "}">> ELSE <<t>>

\* LogTag::encaps, the tag's own default rendering
LogTag_encaps(t) == TRUE

\* LogMetaDataValue::GetValue(logtag_encaps)
GetValue(mdv, logtag_encaps) ==
    IF mdv.type = "LOGMETA_STRING" THEN <<mdv.value>>
    ELSE LogTag_str(mdv.value, logtag_encaps)

\* operator<<(std::ostream&, const LogMetaDataValue): for a string value the
\* logtag member refers to a destroyed temporary, so the flag read from it is
\* arbitrary; GetValue() ignores it for that type.
ValueToStream(mdv) ==
    IF mdv.skip THEN <<>>
    ELSE <<mdv.label, "=">>
         \o (IF mdv.type = "LOGMETA_LOGTAG"
             THEN GetValue(mdv, LogTag_encaps(mdv.value))
             ELSE GetValue(mdv, CHOOSE b \in BOOLEAN : TRUE))

\* ------------------------------------------------------------ LogMetaData
\* LogMetaData::GetMetaValue(l, encaps_logtag, postfix)
GetMetaValue(metadata, l, encaps_logtag, postfix) ==
    LET hits == {i \in 1..Len(metadata) : metadata[i].label = l}
    IN  IF hits = {} THEN <<>>
        ELSE LET it == CHOOSE i \in hits : \A j \in hits : i <= j
             IN  GetValue(metadata[it], encaps_logtag) \o postfix

\* std::toupper over the label
ToUpper(label) ==
    CASE label = "user" -> "USER"
      [] label = "ip" -> "IP"
      [] OTHER -> label

\* LogMetaData::GetMetaDataRecords(upcase_label, logtag_encaps)
RECURSIVE GetMetaDataRecords(_, _, _)
GetMetaDataRecords(metadata, upcase_label, logtag_encaps) ==
    IF metadata = <<>> THEN <<>>
    ELSE LET mdc == Head(metadata)
             label == IF upcase_label THEN ToUpper(mdc.label) ELSE mdc.label
             rec == IF mdc.type = "LOGMETA_LOGTAG"
                    THEN <<label, "=">> \o GetValue(mdc, logtag_encaps)
                    ELSE <<label, "=">> \o GetValue(mdc, TRUE)
         IN  <<rec>> \o GetMetaDataRecords(Tail(metadata), upcase_label, logtag_encaps)

\* operator<<(std::ostream&, const LogMetaData&) clearing first on every
\* entry, skipped or not
RECURSIVE MetaToStream_SkipClearsFirst(_, _)
MetaToStream_SkipClearsFirst(metadata, first) ==
    IF metadata = <<>> THEN <<>>
    ELSE LET mdv == Head(metadata)
         IN  IF mdv.skip THEN MetaToStream_SkipClearsFirst(Tail(metadata), FALSE)
             ELSE (IF ~first THEN <<", ">> ELSE <<>>) \o ValueToStream(mdv)
                  \o MetaToStream_SkipClearsFirst(Tail(metadata), FALSE)

\* operator<<(std::ostream&, const LogMetaData&)
RECURSIVE MetaToStream(_, _)
MetaToStream(metadata, first) ==
    IF metadata = <<>> THEN <<>>
    ELSE LET mdv == Head(metadata)
         IN  IF mdv.skip THEN MetaToStream(Tail(metadata), first)
             ELSE (IF ~first THEN <<", ">> ELSE <<>>) \o ValueToStream(mdv)
                  \o MetaToStream(Tail(metadata), FALSE)

\* --------------------------------------------------------------- LogEvent
\* LogEvent(group, category, message), no session token
LogEvent(grp, ctg, msg) ==
    [group |-> grp, category |-> ctg, message |-> msg, session_token |-> ""]

\* Events::Log(logev, session_token): a copy of the event carrying the token
LogEventWithToken(logev, token) ==
    [logev EXCEPT !.session_token = token]

LogEvents ==
    {LogEventWithToken(LogEvent(g, c, m), t) :
        g \in LogGroups, c \in LogCategories, m \in Messages, t \in SessionTokens}

\* LogPrefix(grp, ctg) of logevent.hpp: the textual group/category prefix
LogPrefix(grp, ctg) == <<grp, " ", ctg, ": ">>

\* logcatg2syslog(ctg) of logevent.hpp
logcatg2syslog(ctg) == IF ctg = "FATAL" THEN "LOG_ALERT" ELSE "LOG_INFO"

\* GetTimestamp() of common/timestamp.hpp
GetTimestamp == <<"<timestamp>">>

\* ------------------------------------------------------------- LogWriter
\* The members of LogWriter as one value (logwriter.hpp, protected section)
WriterState(ts, lm, md, pp, pl, pm) ==
    [timestamp |-> ts, log_meta |-> lm, metadata |-> md,
     prepend_prefix |-> pp, prepend_label |-> pl, prepend_meta |-> pm]

\* One record handed to the destination by a Write call
OutRec(via, prio, text, fields) ==
    [via |-> via, prio |-> prio, text |-> text, fields |-> fields]

NoMem == [allocated |-> 0, written |-> 0, buffers |-> 0, freed |-> 0, array_freed |-> FALSE]

\* StreamLogWriter::Write(data, colour_init, colour_reset) without the final
\* metadata.clear()
StreamLogWriter_Write_NoClear(w, data, colour_init, colour_reset) ==
    LET ts == IF w.timestamp THEN GetTimestamp ELSE <<>>
        withmeta == w.log_meta /\ w.metadata # <<>>
        metaline == OutRec("metaline", "", ts \o <<" ">> \o colour_init
                       \o (IF w.prepend_meta
                           THEN GetMetaValue(w.metadata, w.prepend_label, TRUE, <<" ">>)
                           ELSE <<>>)
                       \o MetaToStream(w.metadata, TRUE) \o colour_reset, <<>>)
        msgline == OutRec("message", "", ts \o <<" ">> \o colour_init
                       \o (IF w.prepend_label # ""
                           THEN GetMetaValue(w.metadata, w.prepend_label, TRUE, <<" ">>)
                           ELSE <<>>)
                       \o data \o colour_reset, <<>>)
    IN  [w |-> [w EXCEPT !.prepend_meta = IF withmeta THEN FALSE ELSE @,
                         !.prepend_label = ""],
         out |-> (IF withmeta THEN <<metaline>> ELSE <<>>) \o <<msgline>>,
         mem |-> NoMem]

\* StreamLogWriter::Write(data, colour_init, colour_reset)
StreamLogWriter_Write(w, data, colour_init, colour_reset) ==
    LET ts == IF w.timestamp THEN GetTimestamp ELSE <<>>
        withmeta == w.log_meta /\ w.metadata # <<>>
        metaline == OutRec("metaline", "", ts \o <<" ">> \o colour_init
                       \o (IF w.prepend_meta
                           THEN GetMetaValue(w.metadata, w.prepend_label, TRUE, <<" ">>)
                           ELSE <<>>)
                       \o MetaToStream(w.metadata, TRUE) \o colour_reset, <<>>)
        msgline == OutRec("message", "", ts \o <<" ">> \o colour_init
                       \o (IF w.prepend_label # ""
                           THEN GetMetaValue(w.metadata, w.prepend_label, TRUE, <<" ">>)
                           ELSE <<>>)
                       \o data \o colour_reset, <<>>)
    IN  [w |-> [w EXCEPT !.prepend_meta = IF withmeta THEN FALSE ELSE @,
                         !.prepend_label = "",
                         !.metadata = <<>>],
         out |-> (IF withmeta THEN <<metaline>> ELSE <<>>) \o <<msgline>>,
         mem |-> NoMem]

\* SyslogWriter::Write(data, colour_init, colour_reset) testing only
\* !metadata.empty() before the metadata syslog() call
SyslogWriter_Write_MetaAlways(w, data, colour_init, colour_reset) ==
    LET p == IF w.prepend_meta
             THEN GetMetaValue(w.metadata, w.prepend_label, TRUE, <<" ">>)
             ELSE <<>>
        withmeta == w.metadata # <<>>
        metaline == OutRec("metaline", "LOG_INFO", p \o MetaToStream(w.metadata, TRUE), <<>>)
        msgline == OutRec("message", "LOG_INFO", p \o data, <<>>)
    IN  [w |-> [w EXCEPT !.prepend_meta = IF withmeta THEN FALSE ELSE @,
                         !.prepend_label = "",
                         !.metadata = <<>>],
         out |-> (IF withmeta THEN <<metaline>> ELSE <<>>) \o <<msgline>>,
         mem |-> NoMem]

\* SyslogWriter::Write(data, colour_init, colour_reset)
SyslogWriter_Write(w, data, colour_init, colour_reset) ==
    LET p == IF w.prepend_meta
             THEN GetMetaValue(w.metadata, w.prepend_label, TRUE, <<" ">>)
             ELSE <<>>
        withmeta == w.log_meta /\ w.metadata # <<>>
        metaline == OutRec("metaline", "LOG_INFO", p \o MetaToStream(w.metadata, TRUE), <<>>)
        msgline == OutRec("message", "LOG_INFO", p \o data, <<>>)
    IN  [w |-> [w EXCEPT !.prepend_meta = IF withmeta THEN FALSE ELSE @,
                         !.prepend_label = "",
                         !.metadata = <<>>],
         out |-> (IF withmeta THEN <<metaline>> ELSE <<>>) \o <<msgline>>,
         mem |-> NoMem]

\* SyslogWriter::Write(grp, ctg, data, colour_init, colour_reset) leaving
\* LogPrefix(grp, ctg) out of the message
SyslogWriter_WriteGrp_NoPrefix(w, grp, ctg, data, colour_init, colour_reset) ==
    LET p == IF w.prepend_meta
             THEN GetMetaValue(w.metadata, w.prepend_label, TRUE, <<" ">>)
             ELSE <<>>
        withmeta == w.log_meta /\ w.metadata # <<>>
        metaline == OutRec("metaline", logcatg2syslog(ctg),
                           p \o MetaToStream(w.metadata, TRUE), <<>>)
        msgline == OutRec("message", logcatg2syslog(ctg), p \o data, <<>>)
    IN  [w |-> [w EXCEPT !.prepend_meta = IF withmeta THEN FALSE ELSE @,
                         !.prepend_label = "",
                         !.metadata = <<>>],
         out |-> (IF withmeta THEN <<metaline>> ELSE <<>>) \o <<msgline>>,
         mem |-> NoMem]

\* SyslogWriter::Write(grp, ctg, data, colour_init, colour_reset)
SyslogWriter_WriteGrp(w, grp, ctg, data, colour_init, colour_reset) ==
    LET p == IF w.prepend_meta
             THEN GetMetaValue(w.metadata, w.prepend_label, TRUE, <<" ">>)
             ELSE <<>>
        withmeta == w.log_meta /\ w.metadata # <<>>
        metaline == OutRec("metaline", logcatg2syslog(ctg),
                           p \o MetaToStream(w.metadata, TRUE), <<>>)
        msgline == OutRec("message", logcatg2syslog(ctg),
                          p \o LogPrefix(grp, ctg) \o data, <<>>)
    IN  [w |-> [w EXCEPT !.prepend_meta = IF withmeta THEN FALSE ELSE @,
                         !.prepend_label = "",
                         !.metadata = <<>>],
         out |-> (IF withmeta THEN <<metaline>> ELSE <<>>) \o <<msgline>>,
         mem |-> NoMem]

RECURSIVE PrefixAll(_, _)
PrefixAll(pfx, recs) ==
    IF recs = <<>> THEN <<>>
    ELSE <<pfx \o Head(recs)>> \o PrefixAll(pfx, Tail(recs))

\* JournaldWriter::Write(event) returning right after the error report when
\* sd_journal_sendv() fails
JournaldWriter_WriteEvent_ReturnOnError(w, event, send_ok) ==
    LET metafields == PrefixAll(<<"O3_">>, GetMetaDataRecords(w.metadata, TRUE, FALSE))
        st == IF event.session_token # ""
              THEN <<(<<"O3_SESSION_TOKEN=", event.session_token>>)>>
              ELSE <<>>
        lg == <<"O3_LOG_GROUP=", event.group>>
        lc == <<"O3_LOG_CATEGORY=", event.category>>
        m == <<"MESSAGE=">>
             \o (IF w.prepend_prefix /\ w.prepend_meta
                 THEN GetMetaValue(w.metadata, w.prepend_label, TRUE, <<" ">>)
                 ELSE <<>>)
             \o <<event.message>>
        l == metafields \o st \o <<lg, lc, m>>
        i == Len(l)
        journal == OutRec("journal", "", m, l)
        diag == OutRec("diag", "", <<"ERROR: ", "strerror(errno)">>, <<>>)
    IN  IF send_ok
        THEN [w |-> [w EXCEPT !.prepend_label = "", !.metadata = <<>>],
              out |-> <<journal>>,
              mem |-> [allocated |-> Len(w.metadata) + 6, written |-> i + 1,
                       buffers |-> i, freed |-> i, array_freed |-> TRUE]]
        ELSE [w |-> w,
              out |-> <<journal, diag>>,
              mem |-> [allocated |-> Len(w.metadata) + 6, written |-> i + 1,
                       buffers |-> i, freed |-> 0, array_freed |-> FALSE]]

\* JournaldWriter::Write(event) prepending on prepend_meta alone, whatever
\* EnableMessagePrepend set
JournaldWriter_WriteEvent_PrependUnconditional(w, event, send_ok) ==
    LET metafields == PrefixAll(<<"O3_">>, GetMetaDataRecords(w.metadata, TRUE, FALSE))
        st == IF event.session_token # ""
              THEN <<(<<"O3_SESSION_TOKEN=", event.session_token>>)>>
              ELSE <<>>
        lg == <<"O3_LOG_GROUP=", event.group>>
        lc == <<"O3_LOG_CATEGORY=", event.category>>
        m == <<"MESSAGE=">>
             \o (IF w.prepend_meta
                 THEN GetMetaValue(w.metadata, w.prepend_label, TRUE, <<" ">>)
                 ELSE <<>>)
             \o <<event.message>>
        l == metafields \o st \o <<lg, lc, m>>
        i == Len(l)
        journal == OutRec("journal", "", m, l)
        diag == OutRec("diag", "", <<"ERROR: ", "strerror(errno)">>, <<>>)
    IN  [w |-> [w EXCEPT !.prepend_label = "", !.metadata = <<>>],
         out |-> <<journal>> \o (IF send_ok THEN <<>> ELSE <<diag>>),
         mem |-> [allocated |-> Len(w.metadata) + 6, written |-> i + 1,
                  buffers |-> i, freed |-> i, array_freed |-> TRUE]]

\* JournaldWriter::Write(event) with an array sized for the group, category,
\* message and terminator slots only
JournaldWriter_WriteEvent_NoTokenSlot(w, event, send_ok) ==
    LET metafields == PrefixAll(<<"O3_">>, GetMetaDataRecords(w.metadata, TRUE, FALSE))
        st == IF event.session_token # ""
              THEN <<(<<"O3_SESSION_TOKEN=", event.session_token>>)>>
              ELSE <<>>
        lg == <<"O3_LOG_GROUP=", event.group>>
        lc == <<"O3_LOG_CATEGORY=", event.category>>
        m == <<"MESSAGE=">>
             \o (IF w.prepend_prefix /\ w.prepend_meta
                 THEN GetMetaValue(w.metadata, w.prepend_label, TRUE, <<" ">>)
                 ELSE <<>>)
             \o <<event.message>>
        l == metafields \o st \o <<lg, lc, m>>
        i == Len(l)
        journal == OutRec("journal", "", m, l)
        diag == OutRec("diag", "", <<"ERROR: ", "strerror(errno)">>, <<>>)
    IN  [w |-> [w EXCEPT !.prepend_label = "", !.metadata = <<>>],
         out |-> <<journal>> \o (IF send_ok THEN <<>> ELSE <<diag>>),
         mem |-> [allocated |-> Len(w.metadata) + 4, written |-> i + 1,
                  buffers |-> i, freed |-> i, array_freed |-> TRUE]]

\* JournaldWriter::Write(event); send_ok is the outcome of sd_journal_sendv()
JournaldWriter_WriteEvent(w, event, send_ok) ==
    LET metafields == PrefixAll(<<"O3_">>, GetMetaDataRecords(w.metadata, TRUE, FALSE))
        st == IF event.session_token # ""
              THEN <<(<<"O3_SESSION_TOKEN=", event.session_token>>)>>
              ELSE <<>>
        lg == <<"O3_LOG_GROUP=", event.group>>
        lc == <<"O3_LOG_CATEGORY=", event.category>>
        m == <<"MESSAGE=">>
             \o (IF w.prepend_prefix /\ w.prepend_meta
                 THEN GetMetaValue(w.metadata, w.prepend_label, TRUE, <<" ">>)
                 ELSE <<>>)
             \o <<event.message>>
        l == metafields \o st \o <<lg, lc, m>>
        i == Len(l)
        journal == OutRec("journal", "", m, l)
        diag == OutRec("diag", "", <<"ERROR: ", "strerror(errno)">>, <<>>)
    IN  [w |-> [w EXCEPT !.prepend_label = "", !.metadata = <<>>],
         out |-> <<journal>> \o (IF send_ok THEN <<>> ELSE <<diag>>),
         mem |-> [allocated |-> Len(w.metadata) + 6, written |-> i + 1,
                  buffers |-> i, freed |-> i, array_freed |-> TRUE]]

\* JournaldWriter::Write(data, colour_init, colour_reset)
JournaldWriter_Write(w, data, colour_init, colour_reset, send_ok) ==
    JournaldWriter_WriteEvent(w, LogEvent("UNDEFINED", "INFO", data), send_ok)

\* JournaldWriter::Write(grp, ctg, data, colour_init, colour_reset)
JournaldWriter_WriteGrp(w, grp, ctg, data, colour_init, colour_reset, send_ok) ==
    JournaldWriter_WriteEvent(w, LogEvent(grp, ctg, data), send_ok)

\* virtual dispatch of Write(data, colour_init, colour_reset)
Write_data(b, w, data, colour_init, colour_reset, send_ok) ==
    CASE b = "stream"   -> StreamLogWriter_Write(w, <<data>>, colour_init, colour_reset)
      [] b = "syslog"   -> SyslogWriter_Write(w, <<data>>, colour_init, colour_reset)
      [] b = "journald" -> JournaldWriter_Write(w, data, colour_init, colour_reset, send_ok)

\* LogWriter::Write(grp, ctg, data, colour_init, colour_reset) and its overrides
Write_grp_colour(b, w, grp, ctg, data, colour_init, colour_reset, send_ok) ==
    CASE b = "stream"   -> StreamLogWriter_Write(w, LogPrefix(grp, ctg) \o <<data>>,
                                                 colour_init, colour_reset)
      [] b = "syslog"   -> SyslogWriter_WriteGrp(w, grp, ctg, <<data>>,
                                                 colour_init, colour_reset)
      [] b = "journald" -> JournaldWriter_WriteGrp(w, grp, ctg, data,
                                                   colour_init, colour_reset, send_ok)

\* LogWriter::Write(grp, ctg, data)
Write_grp(b, w, grp, ctg, data, send_ok) ==
    Write_grp_colour(b, w, grp, ctg, data, <<>>, <<>>, send_ok)

\* LogWriter::Write(logev) and JournaldWriter::Write(event)
Write_event(b, w, logev, send_ok) ==
    IF b = "journald" THEN JournaldWriter_WriteEvent(w, logev, send_ok)
    ELSE Write_grp(b, w, logev.group, logev.category, logev.message, send_ok)

\* SyslogWriter without its override of TimestampEnabled()
SyslogWriter_TimestampEnabled_Inherited(w) == w.timestamp

\* LogWriter::TimestampEnabled()
LogWriter_TimestampEnabled(w) == w.timestamp

\* SyslogWriter::TimestampEnabled()
SyslogWriter_TimestampEnabled(w) == TRUE

\* JournaldWriter::TimestampEnabled()
JournaldWriter_TimestampEnabled(w) == TRUE

\* virtual dispatch of TimestampEnabled(); StreamLogWriter has no override
TimestampEnabled(b, w) ==
    CASE b = "stream"   -> LogWriter_TimestampEnabled(w)
      [] b = "syslog"   -> SyslogWriter_TimestampEnabled(w)
      [] b = "journald" -> JournaldWriter_TimestampEnabled(w)

\* ------------------------------------------------------------------ state
VARIABLES
    backend,          \* which LogWriter implementation the object is
    timestamp,        \* LogWriter::timestamp
    log_meta,         \* LogWriter::log_meta
    metadata,         \* LogWriter::metadata (the vector inside LogMetaData)
    prepend_prefix,   \* LogWriter::prepend_prefix
    prepend_label,    \* LogWriter::prepend_label ("" when empty)
    prepend_meta,     \* LogWriter::prepend_meta
    last_tstamp,      \* history: argument of the most recent EnableTimestamp
                      \* call (the member's initialiser before the first)
    since_write,      \* history: "clean", "AddMeta" once AddMeta was called
                      \* since the last Write, "AddMetaCopy" once that was
    ret,              \* what the Write call that just returned was given and
                      \* handed to its destination (NoWrite after other calls);
                      \* after_meta: the call before it was a Write that
                      \* showed metadata
    proc,             \* the process: "running", "killed_SIGHUP", "std_terminate"
    obj,              \* the BackendSignals object: "alive" or "destroyed"
    session_token,    \* BackendSignals::session_token
    delayed_shutdown, \* BackendSignals::delayed_shutdown: 0 is nullptr, else
                      \* the index in threads of the std::thread it owns
    threads,          \* the timer threads started, each with its remaining sleep
    last_ev,          \* the status event retained by sig_statuschg
    recent_status,    \* history: argument of the most recent StatusChange call
    fatal_calls,      \* history: number of LogFATAL calls made
    sret              \* the BackendSignals call that returned last: its name,
                      \* the status it returned, what it emitted, in order,
                      \* the kind of value it gave its caller (result), whether
                      \* it left by an exception (thrown) and the session
                      \* token of the log event it was given (token_in)

writer_vars == <<backend, timestamp, log_meta, metadata, prepend_prefix,
                 prepend_label, prepend_meta, last_tstamp, since_write, ret>>
signal_vars == <<proc, obj, session_token, delayed_shutdown, threads, last_ev,
                 recent_status, fatal_calls, sret>>
vars == <<writer_vars, signal_vars>>

\* The LogWriter members of the current state
W == WriterState(timestamp, log_meta, metadata, prepend_prefix, prepend_label,
                 prepend_meta)

NoWrite ==
    [call |-> "none", pre |-> WriterState(TRUE, TRUE, <<>>, TRUE, "", FALSE),
     since |-> "clean", after_meta |-> FALSE, data |-> "", out |-> <<>>,
     mem |-> NoMem]

NoStatus == [major |-> "UNSET", minor |-> "UNSET", message |-> ""]

\* value is NoStatus for the calls that return void
NoCall ==
    [call |-> "none", value |-> NoStatus, emitted |-> <<>>, result |-> "none",
     thrown |-> FALSE, token_in |-> ""]

\* LogWriter() = default, with the member initialisers of logwriter.hpp
WriterConstructed ==
    /\ backend \in Backends
    /\ timestamp = TRUE
    /\ log_meta = TRUE
    /\ metadata = <<>>
    /\ prepend_prefix = TRUE
    /\ prepend_label = ""
    /\ prepend_meta = FALSE
    /\ last_tstamp = TRUE
    /\ since_write = "clean"
    /\ ret = NoWrite

\* BackendSignals(conn, lgroup, session_token, logwr)
SignalsConstructed ==
    /\ proc = "running"
    /\ obj = "alive"
    /\ session_token \in SessionTokens \ {""}
    /\ delayed_shutdown = 0
    /\ threads = <<>>
    /\ last_ev = NoStatus
    /\ recent_status = NoStatus
    /\ fatal_calls = 0
    /\ sret = NoCall

Init == WriterConstructed /\ SignalsConstructed

\* ------------------------------------------------------ LogWriter calls
\* A call other than Write returned: nothing was handed to the destination
Returned(attach) ==
    /\ ret' = NoWrite
    /\ since_write' = CASE attach = "AddMetaCopy" -> "AddMetaCopy"
                        [] attach = "AddMeta" /\ since_write = "clean" -> "AddMeta"
                        [] OTHER -> since_write
    /\ UNCHANGED signal_vars

\* LogWriter::EnableTimestamp(tstamp)
EnableTimestamp ==
    \E tstamp \in BOOLEAN :
        /\ timestamp' = tstamp
        /\ last_tstamp' = tstamp
        /\ Returned("")
        /\ UNCHANGED <<backend, log_meta, metadata, prepend_prefix, prepend_label,
                       prepend_meta>>

\* LogWriter::EnableLogMeta(meta)
EnableLogMeta ==
    \E meta \in BOOLEAN :
        /\ log_meta' = meta
        /\ Returned("")
        /\ UNCHANGED <<backend, timestamp, metadata, prepend_prefix, prepend_label,
                       prepend_meta, last_tstamp>>

\* LogWriter::EnableMessagePrepend(mp)
EnableMessagePrepend ==
    \E mp \in BOOLEAN :
        /\ prepend_prefix' = mp
        /\ Returned("")
        /\ UNCHANGED <<backend, timestamp, log_meta, metadata, prepend_label,
                       prepend_meta, last_tstamp>>

\* LogMetaData::AddMeta(l, v, skip) for either value type
LogMetaData_AddMeta(md, mdv) == Append(md, mdv)

\* LogWriter::AddMeta(label, data, skip) without the test of log_meta
AddMeta_Unguarded ==
    \E label \in Labels, data \in StringValues, skip \in BOOLEAN :
        /\ Len(metadata) < MaxMeta
        /\ metadata' = LogMetaData_AddMeta(metadata, LogMetaDataValue(label, data, skip))
        /\ Returned("AddMeta")
        /\ UNCHANGED <<backend, timestamp, log_meta, prepend_prefix, prepend_label,
                       prepend_meta, last_tstamp>>

\* LogWriter::AddMeta(label, data, skip)
AddMeta ==
    \E label \in Labels, data \in StringValues, skip \in BOOLEAN :
        /\ Len(metadata) < MaxMeta
        /\ metadata' = IF log_meta
                       THEN LogMetaData_AddMeta(metadata, LogMetaDataValue(label, data, skip))
                       ELSE metadata
        /\ Returned("AddMeta")
        /\ UNCHANGED <<backend, timestamp, log_meta, prepend_prefix, prepend_label,
                       prepend_meta, last_tstamp>>

\* LogWriter::AddMeta(label, ltg, skip, encaps)
AddMetaTag ==
    \E label \in TagLabels, ltg \in LogTags, skip \in BOOLEAN, encaps \in BOOLEAN :
        /\ Len(metadata) < MaxMeta
        /\ metadata' = IF log_meta
                       THEN LogMetaData_AddMeta(metadata, LogMetaDataValueTag(label, ltg, skip))
                       ELSE metadata
        /\ Returned("AddMeta")
        /\ UNCHANGED <<backend, timestamp, log_meta, prepend_prefix, prepend_label,
                       prepend_meta, last_tstamp>>

\* LogWriter::AddMetaCopy(mdc)
AddMetaCopy ==
    \E mdc \in SeqsUpTo(MetaValues, MaxCopy) :
        /\ metadata' = mdc
        /\ Returned("AddMetaCopy")
        /\ UNCHANGED <<backend, timestamp, log_meta, prepend_prefix, prepend_label,
                       prepend_meta, last_tstamp>>

\* LogWriter::PrependMeta(label, prep_meta)
PrependMeta ==
    \E label \in Labels \cup {""}, prep_meta \in BOOLEAN :
        /\ prepend_label' = label
        /\ prepend_meta' = prep_meta
        /\ Returned("")
        /\ UNCHANGED <<backend, timestamp, log_meta, metadata, prepend_prefix,
                       last_tstamp>>

\* Whether the records a Write handed over show metadata: a metadata line
\* (stream, syslog) or a metadata field (journal)
MetaRendered(out) ==
    \E i \in 1..Len(out) :
        \/ out[i].via = "metaline"
        \/ \E k \in 1..Len(out[i].fields) : out[i].fields[k][1] = "O3_"

\* The effect of a Write call that computed r from the members
Written(call, data, r) ==
    /\ timestamp' = r.w.timestamp
    /\ log_meta' = r.w.log_meta
    /\ metadata' = r.w.metadata
    /\ prepend_prefix' = r.w.prepend_prefix
    /\ prepend_label' = r.w.prepend_label
    /\ prepend_meta' = r.w.prepend_meta
    /\ ret' = [call |-> call, pre |-> W, since |-> since_write,
               after_meta |-> MetaRendered(ret.out), data |-> data,
               out |-> r.out, mem |-> r.mem]
    /\ since_write' = "clean"
    /\ UNCHANGED <<backend, last_tstamp>>

\* The outcomes of sd_journal_sendv(), which only JournaldWriter calls
SendOutcomes == IF backend = "journald" THEN BOOLEAN ELSE {TRUE}

ColourPairs == {<<(<<>>), (<<>>)>>, <<(<<"<bold>">>), (<<"<reset>">>)>>}

\* Write(data, colour_init, colour_reset)
WriteData ==
    \E data \in Messages, col \in ColourPairs, send_ok \in SendOutcomes :
        /\ Written("Write(data)", data,
                Write_data(backend, W, data, col[1], col[2], send_ok))
        /\ UNCHANGED signal_vars

\* Write(grp, ctg, data, colour_init, colour_reset)
WriteGrpColour ==
    \E grp \in LogGroups, ctg \in LogCategories, data \in Messages,
       col \in ColourPairs, send_ok \in SendOutcomes :
        /\ Written("Write(grp,ctg,data,ci,cr)", data,
                Write_grp_colour(backend, W, grp, ctg, data, col[1], col[2], send_ok))
        /\ UNCHANGED signal_vars

\* Write(grp, ctg, data)
WriteGrp ==
    \E grp \in LogGroups, ctg \in LogCategories, data \in Messages, send_ok \in SendOutcomes :
        /\ Written("Write(grp,ctg,data)", data,
                Write_grp(backend, W, grp, ctg, data, send_ok))
        /\ UNCHANGED signal_vars

\* Write(logev)
WriteEvent ==
    \E logev \in LogEvents, send_ok \in SendOutcomes :
        /\ Written("Write(logev)", logev.message,
                Write_event(backend, W, logev, send_ok))
        /\ UNCHANGED signal_vars

WriterNext ==
    \/ EnableTimestamp
    \/ EnableLogMeta
    \/ EnableMessagePrepend
    \/ AddMeta
    \/ AddMetaTag
    \/ AddMetaCopy
    \/ PrependMeta
    \/ WriteData
    \/ WriteGrpColour
    \/ WriteGrp
    \/ WriteEvent

SpecWriter == Init /\ [][WriterNext]_vars

\* The calls that attach metadata or switch metadata logging, and the Write
\* calls that consume the set
MetaNext ==
    \/ EnableLogMeta
    \/ AddMeta
    \/ AddMetaTag
    \/ AddMetaCopy
    \/ WriteData
    \/ WriteEvent

SpecMeta == Init /\ [][MetaNext]_vars

\* -------------------------------------------------------- BackendSignals
\* sleep(3) in the delayed shutdown thread
GraceSeconds == 3

StatusMajors == {"CONNECTION"}
StatusMinors == {"CONN_CONNECTING", "CONN_CONNECTED"}
StatusMessages == {"", "detail"}
\* Events::Status(maj, min, msg)
EventsStatus(maj, min, msg) == [major |-> maj, minor |-> min, message |-> msg]
StatusEvents ==
    {EventsStatus(maj, min, msg) :
        maj \in StatusMajors, min \in StatusMinors, msg \in StatusMessages}

AttentionTypes == {"CREDENTIALS"}
AttentionGroups == {"USER_PASSWORD"}
BusNames == {":1.42"}
Pids == {4711}

\* The constructor's targets: AddTarget() for the session manager and the log
\* service, and the "sessionmgr" group holding the session manager only
sessmgr_busn == "net.openvpn.v3.sessions"
log_busn == "net.openvpn.v3.log"
DefaultTargets == {sessmgr_busn, log_busn}
SessionMgrTargets == {sessmgr_busn}

\* LogSender::log_group, the lgroup given to the constructor
log_group == "SESSION"

\* What the transport does with one signal: delivered, refused (EmitSignal
\* returns false) or DBus::Signals::Exception
EmitOutcomes == {"sent", "refused", "exception"}

\* One thing a call did that is visible outside the object
Emitted(kind, name, targets, payload, outcome) ==
    [kind |-> kind, name |-> name, targets |-> targets, payload |-> payload,
     outcome |-> outcome]

\* The std::cerr line of a catch block
Diag(text) == Emitted("diag", "std::cerr", {}, [text |-> text], "sent")

\* RegistrationRequest::Send created with CreateSignal(), on the default targets
RegistrationRequest_Send_DefaultTargets(busname, token, pid, outcome) ==
    [result |-> (outcome = "sent"),
     thrown |-> FALSE,
     emitted |-> <<Emitted("signal", "RegistrationRequest", DefaultTargets,
                           [busname |-> busname, token |-> token, pid |-> pid],
                           outcome)>>
                 \o (IF outcome = "exception"
                     THEN <<Diag("RegistrationRequest::Send() EXCEPTION:")>>
                     ELSE <<>>)]

\* RegistrationRequest::Send without its try/catch
RegistrationRequest_Send_NoCatch(busname, token, pid, outcome) ==
    [result |-> (outcome = "sent"),
     thrown |-> (outcome = "exception"),
     emitted |-> <<Emitted("signal", "RegistrationRequest", SessionMgrTargets,
                           [busname |-> busname, token |-> token, pid |-> pid],
                           outcome)>>]

\* Backend::Signals::RegistrationRequest::Send(busname, token, pid)
RegistrationRequest_Send(busname, token, pid, outcome) ==
    [result |-> (outcome = "sent"),
     thrown |-> FALSE,
     emitted |-> <<Emitted("signal", "RegistrationRequest", SessionMgrTargets,
                           [busname |-> busname, token |-> token, pid |-> pid],
                           outcome)>>
                 \o (IF outcome = "exception"
                     THEN <<Diag("RegistrationRequest::Send() EXCEPTION:")>>
                     ELSE <<>>)]

\* ::Signals::StatusChange::Send(statusev): keeps the event and emits it; a
\* delivery failure is caught and reported
StatusChange_Send(statusev, outcome) ==
    [last_ev |-> statusev,
     thrown |-> FALSE,
     emitted |-> <<Emitted("signal", "StatusChange", DefaultTargets, statusev, outcome)>>
                 \o (IF outcome = "exception"
                     THEN <<Diag("StatusChange::Send() EXCEPTION:")>>
                     ELSE <<>>)]

\* ::Signals::StatusChange::LastStatusChange()
LastStatusChange == last_ev

\* ::Signals::AttentionRequired::Send(att_type, att_group, msg); a delivery
\* failure is caught and reported
AttentionRequired_Send(att_type, att_group, msg, outcome) ==
    [thrown |-> FALSE,
     emitted |-> <<Emitted("signal", "AttentionRequired", DefaultTargets,
                           [type |-> att_type, group |-> att_group, message |-> msg],
                           outcome)>>
                 \o (IF outcome = "exception"
                     THEN <<Diag("AttentionRequired::Send() EXCEPTION:")>>
                     ELSE <<>>)]

\* LogSender::Log(logev, duplicate_check, target): the event goes to the local
\* LogWriter and to the remote Log signal
LogSender_Log(logev, target, send_ok, outcome) ==
    LET r == Write_event(backend, W, logev, send_ok)
    IN  [written |-> r,
         emitted |-> <<Emitted("local", "LogWriter::Write", {}, logev,
                               IF send_ok THEN "sent" ELSE "refused"),
                       Emitted("signal", "Log",
                               IF target = "" THEN DefaultTargets ELSE {target},
                               logev, outcome)>>]

\* The caller holds a live object in a live process
Callable == proc = "running" /\ obj = "alive"

\* A BackendSignals call that leaves the LogWriter alone returned, or left
\* by the exception a Send let through
SignalReturned(call, value, emitted, result, thrown) ==
    /\ sret' = [call |-> call, value |-> value, emitted |-> emitted,
                result |-> result, thrown |-> thrown, token_in |-> ""]
    /\ UNCHANGED writer_vars

\* BackendSignals::RegistrationRequest(busname, token, pid)
RegistrationRequest ==
    \E busname \in BusNames, token \in SessionTokens, pid \in Pids,
       outcome \in EmitOutcomes :
        LET r == RegistrationRequest_Send(busname, token, pid, outcome)
        IN
        /\ Callable
        /\ SignalReturned("RegistrationRequest", NoStatus, r.emitted, "void", r.thrown)
        /\ UNCHANGED <<proc, obj, session_token, delayed_shutdown, threads, last_ev,
                       recent_status, fatal_calls>>

\* BackendSignals::StatusChange(statusev) resetting the LogWriter's pending
\* metadata and prepend settings as a Write does
StatusChange_ResetsWriter ==
    \E statusev \in StatusEvents, outcome \in EmitOutcomes :
        LET r == StatusChange_Send(statusev, outcome)
        IN  /\ Callable
            /\ last_ev' = r.last_ev
            /\ recent_status' = statusev
            /\ sret' = [call |-> "StatusChange", value |-> NoStatus,
                        emitted |-> r.emitted, result |-> "void",
                        thrown |-> r.thrown, token_in |-> ""]
            /\ metadata' = <<>>
            /\ prepend_label' = ""
            /\ prepend_meta' = FALSE
            /\ UNCHANGED <<backend, timestamp, log_meta, prepend_prefix, last_tstamp,
                           since_write, ret>>
            /\ UNCHANGED <<proc, obj, session_token, delayed_shutdown, threads,
                           fatal_calls>>

\* BackendSignals::StatusChange(statusev)
StatusChange ==
    \E statusev \in StatusEvents, outcome \in EmitOutcomes :
        LET r == StatusChange_Send(statusev, outcome)
        IN  /\ Callable
            /\ last_ev' = r.last_ev
            /\ recent_status' = statusev
            /\ SignalReturned("StatusChange", NoStatus, r.emitted, "void", r.thrown)
            /\ UNCHANGED <<proc, obj, session_token, delayed_shutdown, threads,
                           fatal_calls>>

\* BackendSignals::StatusChange(maj, min, msg)
StatusChangeMajMin ==
    \E maj \in StatusMajors, min \in StatusMinors, msg \in StatusMessages,
       outcome \in EmitOutcomes :
        LET r == StatusChange_Send(EventsStatus(maj, min, msg), outcome)
        IN  /\ Callable
            /\ last_ev' = r.last_ev
            /\ recent_status' = EventsStatus(maj, min, msg)
            /\ SignalReturned("StatusChange", NoStatus, r.emitted, "void", r.thrown)
            /\ UNCHANGED <<proc, obj, session_token, delayed_shutdown, threads,
                           fatal_calls>>

\* BackendSignals::AttentionReq(att_type, att_group, msg), sending through the
\* status change signal object
AttentionReq_ViaStatusChange ==
    \E att_type \in AttentionTypes, att_group \in AttentionGroups,
       msg \in StatusMessages, outcome \in EmitOutcomes :
        LET r == StatusChange_Send(EventsStatus(att_type, att_group, msg), outcome)
        IN  /\ Callable
            /\ last_ev' = r.last_ev
            /\ SignalReturned("AttentionReq", NoStatus, r.emitted, "void", r.thrown)
            /\ UNCHANGED <<proc, obj, session_token, delayed_shutdown, threads,
                           recent_status, fatal_calls>>

\* BackendSignals::AttentionReq(att_type, att_group, msg)
AttentionReq ==
    \E att_type \in AttentionTypes, att_group \in AttentionGroups,
       msg \in StatusMessages, outcome \in EmitOutcomes :
        LET r == AttentionRequired_Send(att_type, att_group, msg, outcome)
        IN
        /\ Callable
        /\ SignalReturned("AttentionReq", NoStatus, r.emitted, "void", r.thrown)
        /\ UNCHANGED <<proc, obj, session_token, delayed_shutdown, threads, last_ev,
                       recent_status, fatal_calls>>

\* BackendSignals::Log(logev, duplicate_check, target) handing the event on
\* as it came, without Events::Log l(logev, session_token)
Log_KeepToken ==
    \E logev \in LogEvents, send_ok \in SendOutcomes, outcome \in EmitOutcomes :
        LET l == logev
            r == LogSender_Log(l, "", send_ok, outcome)
        IN  /\ Callable
            /\ Written("Write(logev)", l.message, r.written)
            /\ sret' = [call |-> "Log", value |-> NoStatus, emitted |-> r.emitted,
                        result |-> "void", thrown |-> FALSE,
                        token_in |-> logev.session_token]
            /\ UNCHANGED <<proc, obj, session_token, delayed_shutdown, threads, last_ev,
                           recent_status, fatal_calls>>

\* BackendSignals::Log(logev, duplicate_check, target): the event re-tagged
\* with session_token goes to LogSender::Log with logger_busname, which the
\* constructor leaves empty
Log ==
    \E logev \in LogEvents, send_ok \in SendOutcomes, outcome \in EmitOutcomes :
        LET l == LogEventWithToken(logev, session_token)
            r == LogSender_Log(l, "", send_ok, outcome)
        IN  /\ Callable
            /\ Written("Write(logev)", l.message, r.written)
            /\ sret' = [call |-> "Log", value |-> NoStatus, emitted |-> r.emitted,
                        result |-> "void", thrown |-> FALSE,
                        token_in |-> logev.session_token]
            /\ UNCHANGED <<proc, obj, session_token, delayed_shutdown, threads, last_ev,
                           recent_status, fatal_calls>>

\* BackendSignals::GetLastStatusChange()
GetLastStatusChange ==
    /\ Callable
    /\ SignalReturned("GetLastStatusChange", LastStatusChange, <<>>, "GVariant", FALSE)
    /\ UNCHANGED <<proc, obj, session_token, delayed_shutdown, threads, last_ev,
                   recent_status, fatal_calls>>

\* new std::thread([]() { sleep(3); kill(getpid(), SIGHUP); }) never runs
StartTimerThread_NotStarted(ths) == ths

\* new std::thread([]() { sleep(3); kill(getpid(), SIGHUP); })
StartTimerThread(ths) == Append(ths, [remaining |-> GraceSeconds])

\* LogFATAL waiting for the thread it started: the process is gone on return
ResetDelayedShutdown_Join(old) == "killed_SIGHUP"

\* delayed_shutdown.reset(p): the std::thread owned before is deleted, and
\* deleting a joinable std::thread calls std::terminate()
ResetDelayedShutdown(old) == IF old # 0 THEN "std_terminate" ELSE "running"

\* The statements of LogFATAL with the thread started ahead of Log()
FatalSteps_ThreadFirst(logged, started) == started \o logged

\* The statements of LogFATAL in program order: Log(), then the thread
FatalSteps(logged, started) == logged \o started

\* BackendSignals::LogFATAL(msg)
LogFATAL ==
    \E msg \in Messages, send_ok \in SendOutcomes, outcome \in EmitOutcomes :
        LET l == LogEventWithToken(LogEvent(log_group, "FATAL", msg), session_token)
            r == LogSender_Log(l, "", send_ok, outcome)
            ths == StartTimerThread(threads)
            started == IF Len(ths) > Len(threads)
                       THEN <<Emitted("thread", "delayed_shutdown", {}, [thread |-> Len(ths)], "sent")>>
                       ELSE <<>>
        IN  /\ Callable
            /\ Written("Write(logev)", l.message, r.written)
            /\ threads' = ths
            /\ delayed_shutdown' = Len(ths)
            /\ proc' = ResetDelayedShutdown(delayed_shutdown)
            /\ fatal_calls' = fatal_calls + 1
            /\ sret' = [call |-> "LogFATAL", value |-> NoStatus,
                        emitted |-> FatalSteps(r.emitted, started),
                        result |-> "void", thrown |-> FALSE, token_in |-> ""]
            /\ UNCHANGED <<obj, session_token, last_ev, recent_status>>

\* ~BackendSignals(): the members are destroyed, delayed_shutdown among them
Destroy ==
    /\ Callable
    /\ obj' = "destroyed"
    /\ proc' = ResetDelayedShutdown(delayed_shutdown)
    /\ delayed_shutdown' = 0
    /\ SignalReturned("~BackendSignals", NoStatus, <<>>, "void", FALSE)
    /\ UNCHANGED <<session_token, threads, last_ev, recent_status, fatal_calls>>

\* One second of the sleep(3) of every timer thread passes
Tick ==
    /\ proc = "running"
    /\ \E i \in 1..Len(threads) : threads[i].remaining > 0
    /\ threads' = [i \in 1..Len(threads) |->
                      [remaining |-> IF threads[i].remaining > 0
                                     THEN threads[i].remaining - 1 ELSE 0]]
    /\ UNCHANGED <<proc, obj, session_token, delayed_shutdown, last_ev, recent_status,
                   fatal_calls, sret>>
    /\ UNCHANGED writer_vars

\* kill(getpid(), SIGHUP) in a timer thread whose sleep is over
TimerFire ==
    /\ proc = "running"
    /\ \E i \in 1..Len(threads) : threads[i].remaining = 0
    /\ proc' = "killed_SIGHUP"
    /\ UNCHANGED <<obj, session_token, delayed_shutdown, threads, last_ev,
                   recent_status, fatal_calls, sret>>
    /\ UNCHANGED writer_vars

SignalsNext ==
    \/ RegistrationRequest
    \/ StatusChange
    \/ StatusChangeMajMin
    \/ AttentionReq
    \/ Log
    \/ LogFATAL
    \/ GetLastStatusChange
    \/ Destroy
    \/ Tick
    \/ TimerFire

\* The timer threads are scheduled by the operating system: a sleep ends and
\* the kill() after it runs
SpecSignals ==
    Init /\ [][SignalsNext]_vars /\ WF_vars(Tick) /\ WF_vars(TimerFire)

\* A client that attaches metadata to the LogWriter it gave to BackendSignals
\* (logwr) and sends signals in between
ClientNext ==
    \/ AddMeta
    \/ PrependMeta
    \/ RegistrationRequest
    \/ StatusChange
    \/ StatusChangeMajMin
    \/ AttentionReq

SpecClient == Init /\ [][ClientNext]_vars

\* ---------------------------------------------------------- writer claims
\* sub occurs in text
Contains(text, sub) ==
    \E i \in 1..(Len(text) - Len(sub) + 1) : SubSeq(text, i, i + Len(sub) - 1) = sub

\* a occurs in text, and b occurs after the end of that occurrence
Before(text, a, b) ==
    \E i \in 1..Len(text), j \in 1..Len(text) :
        /\ i + Len(a) <= j
        /\ j + Len(b) - 1 <= Len(text)
        /\ SubSeq(text, i, i + Len(a) - 1) = a
        /\ SubSeq(text, j, j + Len(b) - 1) = b

\* The record of a Write's output that carries the message
MessageRec(out) ==
    out[CHOOSE i \in 1..Len(out) : out[i].via \in {"message", "journal"}]

\* The value of the first metadata entry labelled l, <<>> when there is none
Resolved(md, l) ==
    IF \E i \in 1..Len(md) : md[i].label = l
    THEN GetValue(md[CHOOSE i \in 1..Len(md) :
                        md[i].label = l /\ \A j \in 1..(i - 1) : md[j].label # l], TRUE)
    ELSE <<>>

WriteReturned == ret.call # "none"

\* C1: when any Write overload of any backend returns, the writer's metadata
\* set is empty, whether or not metadata was pending or metadata logging was
\* enabled.
C1_MetadataEmptyAfterWrite ==
    WriteReturned => metadata = <<>>

\* A Write returned that found metadata pending while metadata logging was off
C1_Witness ==
    WriteReturned /\ ret.pre.metadata # <<>> /\ ~ret.pre.log_meta /\ metadata = <<>>

\* C2: when any Write returns, prepend_label is empty and prepend_meta is
\* false.
C2_PrependResetAfterWrite ==
    WriteReturned => prepend_label = "" /\ prepend_meta = FALSE

\* C3: a Write that finds a prepend label set and an entry with that label
\* pending puts the resolved value before the message body; with no such
\* entry the message carries no metadata value.
C3_PrependBeforeBody ==
    WriteReturned /\ ret.pre.prepend_label # "" =>
        LET v == Resolved(ret.pre.metadata, ret.pre.prepend_label)
            text == MessageRec(ret.out).text
        IN  IF v # <<>> THEN Before(text, v, <<ret.data>>)
            ELSE \A k \in 1..Len(text) : text[k] \notin StringValues \cup LogTags

\* Whether out shows every entry of md that is not marked skip
Carries(out, md) ==
    \A e \in {md[i] : i \in 1..Len(md)} :
        ~e.skip =>
            \E i \in 1..Len(out) :
                \/ /\ out[i].via = "metaline"
                   /\ Contains(out[i].text, <<e.label, "=">> \o GetValue(e, TRUE))
                \/ \E k \in 1..Len(out[i].fields) :
                      out[i].fields[k] = <<"O3_", ToUpper(e.label), "=">> \o GetValue(e, FALSE)

\* C4 as stated: a Write that finds metadata pending, attached with AddMeta
\* since the Write before it, shows it, and a Write with nothing attached
\* since the Write before it shows none.
C4_MetadataOnExactlyThatWrite ==
    WriteReturned =>
        /\ ret.pre.metadata # <<>> /\ ret.since = "AddMeta" => MetaRendered(ret.out) /\ Carries(ret.out, ret.pre.metadata)
        /\ ret.since = "clean" => ~MetaRendered(ret.out)

\* C4, amended: a Write that finds metadata pending shows it when metadata
\* logging is enabled at that Write (JournaldWriter shows it as fields either
\* way), and a Write with nothing attached since the Write before it shows
\* none.
C4_Amended ==
    WriteReturned =>
        /\ ret.pre.metadata # <<>> /\ (ret.pre.log_meta \/ backend = "journald")
              => MetaRendered(ret.out) /\ Carries(ret.out, ret.pre.metadata)
        /\ ret.since = "clean" => ~MetaRendered(ret.out)

\* Two Write calls in a row: the first showed metadata, the second none
C4_Witness ==
    WriteReturned /\ ret.after_meta /\ ret.since = "clean" /\ ~MetaRendered(ret.out)

\* ---------------------------------------------------------- signal claims
\* C5: at most one delayed shutdown timer thread is ever started per
\* BackendSignals object: the first LogFATAL starts one, a second LogFATAL
\* before it fires starts none.
C5_AtMostOneTimer ==
    /\ Len(threads) <= 1
    /\ fatal_calls >= 1 => Len(threads) = 1

\* C6: once a timer is started, destroying the object leaves the process to
\* the timer: it runs until a timer thread has slept its whole grace period
\* and killed it.
C6_TimerSurvivesDestroy ==
    obj = "destroyed" /\ threads # <<>> =>
        \/ proc = "running"
        \/ /\ proc = "killed_SIGHUP"
           /\ \E i \in 1..Len(threads) : threads[i].remaining = 0

\* C7: once LogFATAL was called the process is eventually terminated, and
\* while the process runs no step removes a started timer or lengthens its
\* remaining sleep.
C7_FatalLeadsToTermination ==
    /\ (fatal_calls > 0) ~> (proc # "running")
    /\ [][\A i \in 1..Len(threads) :
            proc' = "running" =>
                /\ i <= Len(threads')
                /\ threads'[i].remaining <= threads[i].remaining]_vars

\* LogFATAL was called and the timer thread ended the process
C7_Witness ==
    fatal_calls > 0 /\ proc = "killed_SIGHUP"

\* C8 as stated: once LogFATAL was called, its caller makes no further call.
C8_NeverReturns ==
    fatal_calls > 0 => sret.call = "LogFATAL" /\ fatal_calls = 1

\* C8, amended: a LogFATAL call made while no timer thread is owned returns to
\* its caller with the process still running; the caller goes on until the
\* timer fires.
C8_Amended ==
    [][fatal_calls' = fatal_calls + 1 /\ delayed_shutdown = 0 => proc' = "running"]_vars

\* The caller made another call after LogFATAL returned, before the timer fired
C8_Witness ==
    /\ fatal_calls = 1
    /\ proc = "running"
    /\ sret.call \in {"StatusChange", "AttentionReq", "RegistrationRequest", "Log"}

\* C9: in every LogFATAL call the FATAL event has gone to the local writer
\* and to the remote Log signal before the timer thread is started.
C9_LogBeforeTimer ==
    sret.call = "LogFATAL" =>
        \A i \in 1..Len(sret.emitted) :
            sret.emitted[i].kind = "thread" =>
                /\ \E j \in 1..(i - 1) :
                      /\ sret.emitted[j].kind = "local"
                      /\ sret.emitted[j].payload.category = "FATAL"
                /\ \E j \in 1..(i - 1) :
                      /\ sret.emitted[j].kind = "signal"
                      /\ sret.emitted[j].name = "Log"
                      /\ sret.emitted[j].payload.category = "FATAL"

\* A LogFATAL call returned having started its timer thread
C9_Witness ==
    /\ sret.call = "LogFATAL"
    /\ \E i \in 1..Len(sret.emitted) : sret.emitted[i].kind = "thread"

\* C10: GetLastStatusChange returns the argument of the most recent
\* StatusChange call, whatever AttentionReq, RegistrationRequest and Log calls
\* were made since.
C10_LastStatusChange ==
    /\ last_ev = recent_status
    /\ sret.call = "GetLastStatusChange" => sret.value = recent_status

\* GetLastStatusChange returned the event of an earlier StatusChange call
C10_Witness ==
    sret.call = "GetLastStatusChange" /\ sret.value # NoStatus /\ sret.value = recent_status

\* The signals named name among what the last call emitted
SignalsNamed(name) ==
    {i \in 1..Len(sret.emitted) :
        sret.emitted[i].kind = "signal" /\ sret.emitted[i].name = name}

\* The bus names the last call delivered a signal named name to
DeliveredTo(name) ==
    UNION {sret.emitted[i].targets :
              i \in {j \in SignalsNamed(name) : sret.emitted[j].outcome = "sent"}}

\* C11 as stated: a RegistrationRequest is delivered only to members of the
\* "sessionmgr" group and to no member of the general recipient set, and a
\* StatusChange or AttentionRequired only to members of the general set and to
\* no member of the "sessionmgr" group.
C11_RecipientIsolation ==
    /\ DeliveredTo("RegistrationRequest") \subseteq SessionMgrTargets
    /\ DeliveredTo("RegistrationRequest") \cap DefaultTargets = {}
    /\ \A name \in {"StatusChange", "AttentionRequired"} :
          /\ DeliveredTo(name) \subseteq DefaultTargets
          /\ DeliveredTo(name) \cap SessionMgrTargets = {}

\* C11, amended: a RegistrationRequest is delivered only to members of the
\* "sessionmgr" group, so to no member of the general recipient set but the
\* session manager, which belongs to both; a StatusChange or AttentionRequired
\* is delivered only to members of the general set.
C11_Amended ==
    /\ DeliveredTo("RegistrationRequest") \subseteq SessionMgrTargets
    /\ DeliveredTo("RegistrationRequest") \cap (DefaultTargets \ SessionMgrTargets) = {}
    /\ \A name \in {"StatusChange", "AttentionRequired"} :
          DeliveredTo(name) \subseteq DefaultTargets

\* A RegistrationRequest was delivered, to the session manager alone
C11_Witness ==
    /\ sret.call = "RegistrationRequest"
    /\ DeliveredTo("RegistrationRequest") = {sessmgr_busn}
    /\ log_busn \in DefaultTargets

\* C12: when the transport fails to deliver the signal of a StatusChange,
\* AttentionReq or RegistrationRequest call, the failure is caught inside the
\* send (the exception is followed by the report on std::cerr) and the call
\* returns to its caller instead of leaving by an exception.
C12_FailureNotPropagated ==
    sret.call \in {"StatusChange", "AttentionReq", "RegistrationRequest"} =>
        /\ ~sret.thrown
        /\ \A i \in 1..Len(sret.emitted) :
              sret.emitted[i].outcome = "exception" =>
                  \E j \in (i + 1)..Len(sret.emitted) : sret.emitted[j].kind = "diag"

\* A RegistrationRequest call met a transport exception and returned
C12_Witness ==
    /\ sret.call = "RegistrationRequest"
    /\ \E i \in SignalsNamed("RegistrationRequest") :
          sret.emitted[i].outcome = "exception"
    /\ ~sret.thrown

\* C13: BackendSignals::RegistrationRequest returns a boolean to its caller,
\* true when the signal was emitted and false when delivery failed.
C13_ReturnsSuccess ==
    sret.call = "RegistrationRequest" =>
        sret.result = IF DeliveredTo("RegistrationRequest") # {} THEN "true" ELSE "false"

\* C14: every event given to BackendSignals::Log, the FATAL event of LogFATAL
\* included, is handed to the local writer and to the Log signal carrying the
\* session token of the BackendSignals object, whatever token it came with;
\* the journal record shows that token in its session token field.
C14_LogCarriesSessionToken ==
    sret.call \in {"Log", "LogFATAL"} =>
        /\ \A i \in 1..Len(sret.emitted) :
              sret.emitted[i].kind = "local" \/ sret.emitted[i].name = "Log" =>
                  sret.emitted[i].payload.session_token = session_token
        /\ backend = "journald" =>
              \E k \in 1..Len(ret.out[1].fields) :
                  ret.out[1].fields[k] = <<"O3_SESSION_TOKEN=", session_token>>

\* A Log call was given an event with another token and handed it on with the
\* object's own
C14_Witness ==
    /\ sret.call = "Log"
    /\ sret.token_in # session_token
    /\ \E i \in 1..Len(sret.emitted) :
          /\ sret.emitted[i].name = "Log"
          /\ sret.emitted[i].payload.session_token = session_token

\* ------------------------------------------------------- rendering claims
\* The entries of md not marked skip, in order
RECURSIVE NonSkip(_)
NonSkip(md) ==
    IF md = <<>> THEN <<>>
    ELSE (IF Head(md).skip THEN <<>> ELSE <<Head(md)>>) \o NonSkip(Tail(md))

\* The strings of parts with sep between each two neighbours
RECURSIVE Joined(_, _)
Joined(parts, sep) ==
    IF parts = <<>> THEN <<>>
    ELSE IF Len(parts) = 1 THEN parts[1]
    ELSE parts[1] \o sep \o Joined(Tail(parts), sep)

\* label=value of one entry; a LogTag value in its encapsulated form
LabelValue(e) ==
    IF e.type = "LOGMETA_STRING" THEN <<e.label, "=", e.value>>
    ELSE <<e.label, "=", "{tag:", e.value, "}">>

\* What C15 says operator<< gives for md
DisplayString(md) ==
    Joined([i \in 1..Len(NonSkip(md)) |-> LabelValue(NonSkip(md)[i])], <<", ">>)

\* C15: operator<< on a LogMetaData gives the label=value strings of exactly
\* the entries not marked skip, in insertion order, joined by ", ", with no
\* separator in front or at the end; the metadata line of StreamLogWriter and
\* SyslogWriter ends with that string (before the colour reset).
C15_DisplayJoinsNonSkip ==
    /\ MetaToStream(metadata, TRUE) = DisplayString(metadata)
    /\ WriteReturned /\ ret.out[1].via = "metaline" =>
          \E col \in ColourPairs :
              LET tail == DisplayString(ret.pre.metadata) \o col[2]
                  text == ret.out[1].text
              IN  /\ Len(tail) <= Len(text)
                  /\ SubSeq(text, Len(text) - Len(tail) + 1, Len(text)) = tail
                  /\ (DisplayString(ret.pre.metadata) # <<>> =>
                         /\ Head(DisplayString(ret.pre.metadata)) # ", "
                         /\ DisplayString(ret.pre.metadata)[Len(DisplayString(ret.pre.metadata))] # ", ")

\* A Write rendered a metadata line for a skipped entry followed by a shown one
C15_Witness ==
    /\ WriteReturned
    /\ ret.out[1].via = "metaline"
    /\ Len(ret.pre.metadata) = 2
    /\ ret.pre.metadata[1].skip
    /\ ~ret.pre.metadata[2].skip
    /\ Contains(ret.out[1].text, LabelValue(ret.pre.metadata[2]))

\* What C16 says GetMetaDataRecords(upcase_label, logtag_encaps) gives for md
RecordsOfNonSkip(md, upcase_label, logtag_encaps) ==
    [i \in 1..Len(NonSkip(md)) |->
        <<(IF upcase_label THEN ToUpper(NonSkip(md)[i].label) ELSE NonSkip(md)[i].label), "=">>
        \o GetValue(NonSkip(md)[i], logtag_encaps)]

\* C16: GetMetaDataRecords returns one "LABEL=value" record per entry not
\* marked skip, in insertion order, and none for an entry marked skip; the
\* journal record of JournaldWriter::Write has one metadata field per such
\* entry.
C16_RecordsOnlyNonSkip ==
    /\ GetMetaDataRecords(metadata, TRUE, FALSE) = RecordsOfNonSkip(metadata, TRUE, FALSE)
    /\ WriteReturned /\ backend = "journald" =>
          Cardinality({k \in 1..Len(ret.out[1].fields) : ret.out[1].fields[k][1] = "O3_"})
              = Len(NonSkip(ret.pre.metadata))

\* C17: TimestampEnabled() of SyslogWriter and of JournaldWriter is true in
\* every state, also after EnableTimestamp(false); for the other writers it
\* is the value EnableTimestamp was last given.
C17_TimestampEnabled ==
    TimestampEnabled(backend, W) =
        IF backend \in {"syslog", "journald"} THEN TRUE ELSE last_tstamp

\* EnableTimestamp(false) was the last setting on a SyslogWriter that has
\* written since
C17_Witness ==
    /\ backend = "syslog"
    /\ ~last_tstamp
    /\ WriteReturned
    /\ TimestampEnabled(backend, W)

\* A Write(grp, ctg, data ...) call returned
GrpWriteReturned ==
    ret.call \in {"Write(grp,ctg,data,ci,cr)", "Write(grp,ctg,data)"}

\* text carries no group or category name
NoPrefixText(text) ==
    \A k \in 1..Len(text) : text[k] \notin LogGroups \cup LogCategories

\* text ends with tail
EndsWith(text, tail) ==
    /\ Len(tail) <= Len(text)
    /\ SubSeq(text, Len(text) - Len(tail) + 1, Len(text)) = tail

\* C18 as stated: the message SyslogWriter and JournaldWriter emit for
\* Write(group, category, data) carries no textual group/category prefix: it
\* ends with the data and names neither group nor category.
C18_NoTextualPrefix ==
    GrpWriteReturned /\ backend \in {"syslog", "journald"} =>
        /\ NoPrefixText(MessageRec(ret.out).text)
        /\ EndsWith(MessageRec(ret.out).text, <<ret.data>>)

\* C18, amended: for Write(group, category, data) JournaldWriter emits a
\* MESSAGE field without the textual prefix and carries group and category as
\* fields of their own; SyslogWriter passes the category as the syslog
\* priority and puts LogPrefix(group, category) in front of the data.
C18_Amended ==
    GrpWriteReturned =>
        \E g \in LogGroups, c \in LogCategories :
            LET rec == MessageRec(ret.out)
            IN  /\ backend = "journald" =>
                      /\ NoPrefixText(rec.text)
                      /\ EndsWith(rec.text, <<ret.data>>)
                      /\ \E k \in 1..Len(rec.fields) : rec.fields[k] = <<"O3_LOG_GROUP=", g>>
                      /\ \E k \in 1..Len(rec.fields) : rec.fields[k] = <<"O3_LOG_CATEGORY=", c>>
                /\ backend = "syslog" =>
                      /\ rec.prio = logcatg2syslog(c)
                      /\ EndsWith(rec.text, LogPrefix(g, c) \o <<ret.data>>)

\* A SyslogWriter::Write(grp, ctg, data) returned with the prefix in its
\* message
C18_Witness ==
    /\ GrpWriteReturned
    /\ backend = "syslog"
    /\ ~NoPrefixText(MessageRec(ret.out).text)

\* C19: a Write of StreamLogWriter or SyslogWriter hands over a metadata line
\* exactly when metadata logging is enabled and the metadata set is not
\* empty; the metadata line is a record of its own ahead of the message
\* record, and without it the message is the only record.
C19_MetaLineBeforeMessage ==
    WriteReturned /\ backend \in {"stream", "syslog"} =>
        IF ret.pre.log_meta /\ ret.pre.metadata # <<>>
        THEN /\ Len(ret.out) = 2
             /\ ret.out[1].via = "metaline"
             /\ ~Contains(ret.out[1].text, <<ret.data>>)
             /\ ret.out[2].via = "message"
             /\ Contains(ret.out[2].text, <<ret.data>>)
        ELSE /\ Len(ret.out) = 1
             /\ ret.out[1].via = "message"
             /\ Contains(ret.out[1].text, <<ret.data>>)

\* A SyslogWriter Write made two syslog() calls, the metadata first
C19_Witness ==
    /\ WriteReturned
    /\ backend = "syslog"
    /\ Len(ret.out) = 2
    /\ ret.out[1].via = "metaline"
    /\ ret.out[2].via = "message"

\* The journal submission of the Write that returned failed
SendFailed ==
    \E i \in 1..Len(ret.out) : ret.out[i].via = "diag"

\* C20: when a JournaldWriter Write returns, every field buffer of the record
\* (one per metadata record, the session token field if there is one, group,
\* category and message) and the field array have been released and the
\* metadata set is reset, whether sd_journal_sendv() succeeded or failed; a
\* failure adds the error report and nothing else.
C20_BuffersReleased ==
    WriteReturned /\ backend = "journald" =>
        /\ ret.out[1].via = "journal"
        /\ ret.mem.buffers = Len(ret.out[1].fields)
        /\ Len(ret.out[1].fields) \in
              {Len(ret.pre.metadata) + 3, Len(ret.pre.metadata) + 4}
        /\ ret.mem.freed = ret.mem.buffers
        /\ ret.mem.array_freed
        /\ metadata = <<>>
        /\ prepend_label = ""
        /\ Len(ret.out) = IF SendFailed THEN 2 ELSE 1

\* A JournaldWriter Write with pending metadata returned after a failed
\* submission
C20_Witness ==
    /\ WriteReturned
    /\ backend = "journald"
    /\ SendFailed
    /\ ret.pre.metadata # <<>>
    /\ ret.mem.freed = ret.mem.buffers
    /\ ret.mem.array_freed

\* ----------------------------------------------------------- frame claims
\* C21: a StatusChange, AttentionReq or RegistrationRequest call leaves the
\* LogWriter as it was: the pending metadata set, the prepend label and the
\* prepend_meta flag are the same after the call as before it.
C21_SignalsLeaveWriter ==
    [][sret' # sret
           /\ sret'.call \in {"StatusChange", "AttentionReq", "RegistrationRequest"}
       => UNCHANGED <<metadata, prepend_label, prepend_meta>>]_vars

\* An AttentionReq call returned on an object whose writer holds pending
\* metadata and prepend settings
C21_Witness ==
    /\ sret.call = "AttentionReq"
    /\ Len(metadata) = MaxMeta
    /\ prepend_label # ""
    /\ prepend_meta

\* C22: an AddMeta call (either overload) appends its entry when metadata
\* logging is enabled and leaves the set as it is when it is disabled, so the
\* entry shows in no later Write; with metadata logging disabled only
\* AddMetaCopy (which replaces the set) and Write (which empties it) change
\* the set.
C22_AddMetaOnlyWhenEnabled ==
    /\ [][since_write = "clean" /\ since_write' = "AddMeta" =>
             IF log_meta
             THEN /\ Len(metadata') = Len(metadata) + 1
                  /\ SubSeq(metadata', 1, Len(metadata)) = metadata
                  /\ metadata'[Len(metadata')] \in MetaValues
             ELSE metadata' = metadata]_vars
    /\ [][~log_meta /\ metadata' # metadata =>
             \/ ret'.call # "none" /\ metadata' = <<>>
             \/ since_write' = "AddMetaCopy" /\ metadata' \in SeqsUpTo(MetaValues, MaxCopy)]_vars
    /\ [](WriteReturned /\ ret.since = "AddMeta" /\ ret.pre.metadata = <<>> =>
             ~MetaRendered(ret.out))

\* AddMeta was called with metadata logging disabled, logging was enabled
\* again, and the Write after it showed no metadata
C22_Witness ==
    /\ WriteReturned
    /\ ret.since = "AddMeta"
    /\ ret.pre.metadata = <<>>
    /\ ret.pre.log_meta
    /\ ~MetaRendered(ret.out)

C24_SlotsWithinAllocation ==
    WriteReturned /\ backend = "journald" =>
        /\ ret.mem.allocated = Len(ret.pre.metadata) + 6
        /\ ret.mem.written = Len(ret.out[1].fields) + 1
        /\ ret.mem.written <= ret.mem.allocated

\* A JournaldWriter Write of an event with a session token found the largest
\* metadata set pending and wrote all but one of the slots allocated
C24_Witness ==
    /\ WriteReturned
    /\ backend = "journald"
    /\ Len(ret.pre.metadata) = MaxMeta
    /\ \E k \in 1..Len(ret.out[1].fields) : ret.out[1].fields[k][1] = "O3_SESSION_TOKEN="
    /\ ret.mem.written = ret.mem.allocated - 1

====
